---- MODULE Spec2Model ----
\* A model of the CAR-backed JSON-RPC server: the archive access layer
\* (cmd-rpc-server-car.go) and the getBlock handler that assembles a block
\* from it with a parallel fan-out over the block's entries.
EXTENDS Integers, Sequences, FiniteSets, TLC

\* ---------------------------------------------------------------------
\* Bounds of the model
\* ---------------------------------------------------------------------

\* runtime.NumCPU(): the limit of the errgroup of the entry fan-out
NumCPU == 2

\* requests name a slot in 0..MaxSlot
MaxSlot == 5

\* the width of a solana.Hash in bytes (32 in the program)
HashLen == 2

\* ---------------------------------------------------------------------
\* Constants of the program
\* ---------------------------------------------------------------------

CodeInvalidParams == -32602

CodeInternalError == -32603

CodeMethodNotFound == -32601

\* the sentinel CID of a block without rewards
DummyCID == "dummy"

\* Go's nil error
NilErr == "nil"

\* first byte of a compressed frame the Zstandard decoder accepts
ZstdMagic == 40

\* first byte of a protobuf rewards message the rewards parser accepts
RewardsMagic == 10

\* first byte of a status meta the meta parser accepts
MetaMagic == 8

\* ---------------------------------------------------------------------
\* Node kinds of the archive (ipldbindcode)
\* ---------------------------------------------------------------------

DataFrame(data, total, next) ==
    [kind |-> "DataFrame", data |-> data, total |-> total, next |-> next]

Block(slot, parentSlot, entries, rewards) ==
    [kind |-> "Block", slot |-> slot, parent_slot |-> parentSlot,
     entries |-> entries, rewards |-> rewards]

Entry(hash, transactions) ==
    [kind |-> "Entry", hash |-> hash, transactions |-> transactions]

Transaction(data, metadata) ==
    [kind |-> "Transaction", data |-> data, metadata |-> metadata]

Rewards(data) ==
    [kind |-> "Rewards", data |-> data]

\* a payload no typed decoder accepts
Garbage == [kind |-> "Garbage"]

\* a nil []byte
NilData == [kind |-> "nil"]

\* ---------------------------------------------------------------------
\* The archive: a well-formed DAG, and the ways one archive differs from it
\* ---------------------------------------------------------------------

\* payload of a one-signature legacy transaction
TxLegacy == <<1, 0, 7>>

\* payload of a two-signature versioned (v0) transaction
TxV0 == <<2, 1, 9>>

\* a compressed status meta
MetaOk == <<ZstdMagic, MetaMagic, 5>>

\* compressed rewards: one Fee reward, one reward without a type, one Voting
RewardsOk == <<ZstdMagic, RewardsMagic, 1, 0, 4>>

\* compressed rewards: one reward of each type from 1 to 5, and one
\* without a type
RewardsAllTypes == <<ZstdMagic, RewardsMagic, 1, 2, 3, 4, 5, 0>>

One(data) == DataFrame(data, 1, <<>>)

BaseNodes ==
    [c \in {"B0", "B1", "B2", "B3", "B4",
            "E0", "E1a", "E1b", "E1c", "E2",
            "T0", "T1", "T2", "T3", "T4",
            "R1", "R2", "F1", "F2", "F3"} |->
       CASE c = "B0"  -> Block(0, 0, <<"E0">>, DummyCID)
         [] c = "B1"  -> Block(1, 0, <<"E1a", "E1b", "E1c">>, "R1")
         [] c = "B2"  -> Block(2, 1, <<"E2">>, "R2")
         [] c = "B3"  -> Block(3, 2, <<>>, DummyCID)
         [] c = "B4"  -> Block(4, 3, <<"E0">>, DummyCID)
         [] c = "E0"  -> Entry(<<0, 57>>, <<"T0">>)
         [] c = "E1a" -> Entry(<<3, 4>>, <<"T1", "T2">>)
         [] c = "E1b" -> Entry(<<5, 6>>, <<>>)
         [] c = "E1c" -> Entry(<<1, 200>>, <<"T3">>)
         [] c = "E2"  -> Entry(<<255, 255>>, <<"T4">>)
         [] c = "T0"  -> Transaction(One(TxLegacy), One(<<>>))
         [] c = "T1"  -> Transaction(DataFrame(<<1>>, 2, <<"F1">>), One(MetaOk))
         [] c = "T2"  -> Transaction(One(TxV0),
                                     DataFrame(<<ZstdMagic>>, 2, <<"F2">>))
         [] c = "T3"  -> Transaction(One(TxLegacy), One(<<>>))
         [] c = "T4"  -> Transaction(One(TxV0), One(MetaOk))
         [] c = "R1"  -> Rewards(DataFrame(<<ZstdMagic>>, 3, <<"F3", "F1">>))
         [] c = "R2"  -> Rewards(One(RewardsOk))
         [] c = "F1"  -> DataFrame(<<0, 7>>, 2, <<>>)
         [] c = "F2"  -> DataFrame(<<MetaMagic, 6>>, 2, <<>>)
         [] c = "F3"  -> DataFrame(<<RewardsMagic, 3>>, 3, <<>>)]

Cids == DOMAIN BaseNodes

\* the order of the records in the CAR file: record number = byte offset
CidOrder ==
    <<"B0", "E0", "T0", "B1", "E1a", "E1b", "E1c", "T1", "T2", "T3",
      "F1", "F2", "F3", "R1", "B2", "E2", "T4", "R2", "B3", "B4">>

OffsetOf(c) == CHOOSE o \in 1..Len(CidOrder) : CidOrder[o] = c

BaseCar == [o \in 1..Len(CidOrder) |->
              [cid |-> CidOrder[o], data |-> BaseNodes[CidOrder[o]]]]

BaseCidToOffset == [c \in Cids |-> OffsetOf(c)]

BaseSlotToCid ==
    [s \in 0..4 |-> CASE s = 0 -> "B0" [] s = 1 -> "B1" [] s = 2 -> "B2"
                      [] s = 3 -> "B3" [] s = 4 -> "B4"]

\* the signature of each transaction of the archive
BaseSigToCid ==
    [g \in {"sigT0", "sigT1", "sigT2", "sigT3", "sigT4"} |->
        CASE g = "sigT0" -> "T0" [] g = "sigT1" -> "T1" [] g = "sigT2" -> "T2"
          [] g = "sigT3" -> "T3" [] g = "sigT4" -> "T4"]

\* Archives differ from the well-formed one in one place:
\*   missing:  the CID is absent from the CID->offset index
\*   desync:   the index names the offset of another record
\*   eof:      the index names an offset past the end of the archive
\*   garbage:  the payload of the record is not a node of any kind
\*   content:  the record holds another node than the well-formed one
ContentVariants ==
    { [cid |-> "T3", node |-> Transaction(One(<<0, 0, 7>>), One(<<>>))],
      [cid |-> "T3", node |-> Transaction(One(<<1>>), One(<<>>))],
      [cid |-> "T3", node |-> Transaction(One(TxLegacy), One(<<1, 2>>))],
      [cid |-> "T3", node |->
          Transaction(One(TxLegacy), One(<<ZstdMagic, 3>>))],
      [cid |-> "T1", node |->
          Transaction(DataFrame(<<1>>, 3, <<"F1">>), One(MetaOk))],
      [cid |-> "T1", node |->
          Transaction(DataFrame(<<1, 0>>, 2, <<"F1", "F2">>), One(MetaOk))],
      [cid |-> "T1", node |->
          Transaction(DataFrame(<<1, 0>>, 0, <<"F1">>), One(MetaOk))],
      [cid |-> "T1", node |->
          Transaction(DataFrame(<<1, 0>>, 1, <<"F1">>), One(MetaOk))],
      [cid |-> "R1", node |->
          Rewards(DataFrame(<<ZstdMagic>>, 2, <<"F3", "F1">>))],
      [cid |-> "R1", node |-> Rewards(DataFrame(<<5>>, 3, <<"F3", "F1">>))],
      [cid |-> "R1", node |-> Rewards(DataFrame(<<ZstdMagic>>, 2, <<"F1">>))],
      [cid |-> "R1", node |-> Rewards(One(<<ZstdMagic, RewardsMagic>>))],
      [cid |-> "R1", node |-> Rewards(One(<<>>))],
      [cid |-> "R2", node |-> Rewards(One(RewardsAllTypes))],
      [cid |-> "B1", node |->
          Block(1, 0, <<"E1a", "E1b", "E1c">>, DummyCID)],
      [cid |-> "B1", node |-> Block(1, 1, <<"E1c", "E1a">>, "R2")] }

Variations ==
    {[kind |-> "none", cid |-> "B0", node |-> Garbage]}
    \cup {[kind |-> k, cid |-> c, node |-> Garbage] :
            k \in {"missing", "desync", "eof", "garbage"}, c \in Cids}
    \cup {[kind |-> "content", cid |-> v.cid, node |-> v.node] :
            v \in ContentVariants}

CarOf(v) ==
    [o \in DOMAIN BaseCar |->
        IF v.kind \in {"garbage", "content"} /\ BaseCar[o].cid = v.cid
        THEN [cid |-> v.cid, data |-> v.node]
        ELSE BaseCar[o]]

CidToOffsetOf(v) ==
    [c \in (IF v.kind = "missing" THEN Cids \ {v.cid} ELSE Cids) |->
        IF v.kind = "desync" /\ c = v.cid
        THEN (OffsetOf(c) % Len(CidOrder)) + 1
        ELSE IF v.kind = "eof" /\ c = v.cid
        THEN Len(CidOrder) + 1
        ELSE OffsetOf(c)]

\* ---------------------------------------------------------------------
\* State
\* ---------------------------------------------------------------------

VARIABLES
    carReader,            \* rpcServer.carReader: offset -> (cid, payload)
    cidToOffsetIndex,     \* rpcServer.cidToOffsetIndex
    slotToCidIndex,       \* rpcServer.slotToCidIndex
    sigToCidIndex,        \* rpcServer.sigToCidIndex
    req,                  \* the JSON-RPC request being handled
    cancelled,            \* the request's context has been cancelled
    pc,                   \* position of the getBlock handler
    block,                \* the decoded block
    spawned,              \* number of entries handed to wg.Go
    tasks,                \* entry index -> state of its errgroup task
    wgErr,                \* the error the errgroup keeps (its first one)
    allTransactionNodes,  \* the accumulator guarded by mu
    lastEntryHash,        \* solana.Hash recorded by the last entry's task
    rewards,              \* the rewards of the response
    allTransactions,      \* the responses assembled so far
    lastParse,            \* what parseTransactionAndMetaFromNode last returned
    blockResp,            \* the GetBlockResponse
    replies,              \* the JSON-RPC replies written to the transport
    calls,                \* how often each getter, lookup and read has run
    mm,                   \* Reply: the result as a map[string]any
    resRaw                \* Reply: the map with its keys converted, as sent

vars == <<carReader, cidToOffsetIndex, slotToCidIndex, sigToCidIndex, req,
          cancelled, pc,
          block, spawned, tasks, wgErr, allTransactionNodes, lastEntryHash,
          rewards, allTransactions, lastParse, blockResp, replies, calls,
          mm, resRaw>>

\* ---------------------------------------------------------------------
\* The archive access layer (cmd-rpc-server-car.go)
\* ---------------------------------------------------------------------

\* util.ReadNode at an offset of the archive
ReadNode(offset) ==
    IF offset \in DOMAIN carReader
    THEN [cid |-> carReader[offset].cid, data |-> carReader[offset].data,
          err |-> NilErr]
    ELSE [cid |-> DummyCID, data |-> NilData, err |-> "io_error"]

\* one that does not compare the CIDs
GetNodeByOffsetUnverified(wantedCid, offset) ==
    IF ReadNode(offset).err # NilErr
    THEN [data |-> NilData, err |-> ReadNode(offset).err]
    ELSE [data |-> ReadNode(offset).data, err |-> NilErr]

\* GetNodeByOffset once util.ReadNode has returned r
VerifyNode(wantedCid, r) ==
    IF r.err # NilErr THEN [data |-> NilData, err |-> r.err]
    \* "return nil, err": err is the nil error of the successful ReadNode
    ELSE IF r.cid # wantedCid THEN [data |-> NilData, err |-> r.err]
    ELSE [data |-> r.data, err |-> NilErr]

GetNodeByOffset(wantedCid, offset) == VerifyNode(wantedCid, ReadNode(offset))

FindOffsetFromCid(c) ==
    IF c \in DOMAIN cidToOffsetIndex
    THEN [offset |-> cidToOffsetIndex[c], err |-> NilErr]
    ELSE [offset |-> 0, err |-> "not_found"]

FindCidFromSlot(slot) ==
    IF slot \in DOMAIN slotToCidIndex
    THEN [cid |-> slotToCidIndex[slot], err |-> NilErr]
    ELSE [cid |-> DummyCID, err |-> "not_found"]

\* r after one index lookup and one archive read
AfterLookupAndRead(r) ==
    [data |-> r.data, err |-> r.err, lookups |-> 1, reads |-> 1]

\* GetNodeByCid once FindOffsetFromCid has returned f
GetNodeAt(wantedCid, f) ==
    IF f.err # NilErr
    THEN [data |-> NilData, err |-> f.err, lookups |-> 1, reads |-> 0]
    ELSE AfterLookupAndRead(GetNodeByOffset(wantedCid, f.offset))

GetNodeByCid(wantedCid) == GetNodeAt(wantedCid, FindOffsetFromCid(wantedCid))

\* iplddecoders.DecodeBlock, DecodeEntry, ...: the payload must be a node
\* of the requested kind
DecodeNode(kind, data) ==
    IF data.kind = kind THEN [node |-> data, err |-> NilErr]
    ELSE [node |-> NilData, err |-> "decode_error"]

\* a typed getter once GetNodeByCid has returned r
DecodeFetched(kind, r) ==
    IF r.err # NilErr
    THEN [node |-> NilData, err |-> r.err,
          lookups |-> r.lookups, reads |-> r.reads]
    ELSE [node |-> DecodeNode(kind, r.data).node,
          err |-> DecodeNode(kind, r.data).err,
          lookups |-> r.lookups, reads |-> r.reads]

GetTypedByCid(kind, wantedCid) == DecodeFetched(kind, GetNodeByCid(wantedCid))

GetEntryByCid(wantedCid) == GetTypedByCid("Entry", wantedCid)

GetTransactionByCid(wantedCid) == GetTypedByCid("Transaction", wantedCid)

GetDataFrameByCid(wantedCid) == GetTypedByCid("DataFrame", wantedCid)

GetRewardsByCid(wantedCid) == GetTypedByCid("Rewards", wantedCid)

\* r after the slot lookup that came before it
AfterSlotLookup(r) ==
    [node |-> r.node, err |-> r.err,
     lookups |-> r.lookups + 1, reads |-> r.reads]

\* GetBlock once FindCidFromSlot has returned f
GetBlockAt(f) ==
    IF f.err # NilErr
    THEN [node |-> NilData, err |-> f.err, lookups |-> 1, reads |-> 0]
    ELSE AfterSlotLookup(GetTypedByCid("Block", f.cid))

GetBlock(slot) == GetBlockAt(FindCidFromSlot(slot))

FindCidFromSignature(sig) ==
    IF sig \in DOMAIN sigToCidIndex
    THEN [cid |-> sigToCidIndex[sig], err |-> NilErr]
    ELSE [cid |-> DummyCID, err |-> "not_found"]

\* GetTransaction once FindCidFromSignature has returned f
GetTransactionAt(f) ==
    IF f.err # NilErr
    THEN [node |-> NilData, err |-> f.err, lookups |-> 1, reads |-> 0]
    ELSE AfterSlotLookup(GetTypedByCid("Transaction", f.cid))

GetTransaction(sig) == GetTransactionAt(FindCidFromSignature(sig))

\* ---------------------------------------------------------------------
\* Hashes and encodings
\* ---------------------------------------------------------------------

\* solana.HashFromBytes: copy into a fixed-width array, zero-padded
HashFromBytes(in) ==
    [i \in 1..HashLen |-> IF i <= Len(in) THEN in[i] ELSE 0]

\* the zero value of solana.Hash
ZeroHash == [i \in 1..HashLen |-> 0]

RECURSIVE BigEndian(_)
BigEndian(b) ==
    IF Len(b) = 0 THEN 0
    ELSE BigEndian(SubSeq(b, 1, Len(b) - 1)) * 256 + b[Len(b)]

RECURSIVE LeadingZeros(_)
LeadingZeros(b) ==
    IF Len(b) = 0 \/ b[1] # 0 THEN 0 ELSE 1 + LeadingZeros(Tail(b))

RECURSIVE Digits58(_)
Digits58(n) ==
    IF n = 0 THEN <<>> ELSE Append(Digits58(n \div 58), n % 58)

\* solana.Hash.String(): base58, as indexes into the base58 alphabet
\* (index 0 is the character '1'); the empty string is << >>
Base58(b) ==
    [i \in 1..LeadingZeros(b) |-> 0] \o Digits58(BigEndian(b))

RECURSIVE Base64(_)
\* base64.StdEncoding, as indexes into its alphabet; 64 is the padding '='
Base64(b) ==
    IF Len(b) = 0 THEN <<>>
    ELSE IF Len(b) = 1
    THEN <<b[1] \div 4, (b[1] % 4) * 16, 64, 64>>
    ELSE IF Len(b) = 2
    THEN <<b[1] \div 4, (b[1] % 4) * 16 + b[2] \div 16, (b[2] % 16) * 4, 64>>
    ELSE <<b[1] \div 4, (b[1] % 4) * 16 + b[2] \div 16,
           (b[2] % 16) * 4 + b[3] \div 64, b[3] % 64>>
         \o Base64(SubSeq(b, 4, Len(b)))

\* ---------------------------------------------------------------------
\* The external byte -> struct functions
\* ---------------------------------------------------------------------

\* decompressZstd: a frame is the magic followed by the content
decompressZstd(b) ==
    IF Len(b) > 0 /\ b[1] = ZstdMagic
    THEN [out |-> Tail(b), err |-> NilErr]
    ELSE [out |-> <<>>, err |-> "zstd_error"]

\* the zero value solana.Transaction{}
ZeroTx == [nsigs |-> 0, version |-> 0, raw |-> <<>>]

\* bin.UnmarshalBin into a solana.Transaction: the signature count, then
\* the message whose first byte tells the version (0 is legacy)
UnmarshalBin(b) ==
    IF Len(b) >= 2
    THEN [tx |-> [nsigs |-> b[1], version |-> b[2], raw |-> b],
          err |-> NilErr]
    ELSE [tx |-> ZeroTx, err |-> "parser_error"]

MetaNull == [isNull |-> TRUE, status |-> <<>>]

\* solanatxmetaparsers.ParseAnyTransactionStatusMeta
ParseAnyTransactionStatusMeta(b) ==
    IF Len(b) > 0 /\ b[1] = MetaMagic
    THEN [status |-> Tail(b), err |-> NilErr]
    ELSE [status |-> <<>>, err |-> "parser_error"]

JNull == [t |-> "null", n |-> 0, s |-> ""]

JNum(n) == [t |-> "num", n |-> n, s |-> ""]

JStr(s) == [t |-> "str", n |-> 0, s |-> s]

\* one element of the parsed rewards after the JSON round trip: a field
\* with the zero value is omitted
RewardElement(r) ==
    LET keys == {"pubkey"}
                \cup (IF r % 8 # 0 THEN {"reward_type"} ELSE {})
                \cup (IF r \div 8 # 0 THEN {"post_balance"} ELSE {})
    IN [k \in keys |->
          CASE k = "pubkey" -> JStr("pk")
            [] k = "reward_type" -> JNum(r % 8)
            [] k = "post_balance" -> JNum(r \div 8)]

\* solanablockrewards.ParseRewards, json.Marshal and json.Unmarshal into a
\* map: the map has the key "rewards" iff the message has a reward
ParseRewards(b) ==
    IF Len(b) > 0 /\ b[1] = RewardsMagic
    THEN [hasRewards |-> Len(b) > 1,
          rewards |-> [i \in 1..(Len(b) - 1) |-> RewardElement(b[i + 1])],
          err |-> NilErr]
    ELSE [hasRewards |-> FALSE, rewards |-> <<>>, err |-> "parser_error"]

\* one that has no name for 2
rentTypeToStringNoRent(typ) ==
    CASE typ = 1 -> "Fee"
      [] typ = 3 -> "Staking"
      [] typ = 4 -> "Voting"
      [] OTHER -> "Unknown"

rentTypeToString(typ) ==
    CASE typ = 1 -> "Fee"
      [] typ = 2 -> "Rent"
      [] typ = 3 -> "Staking"
      [] typ = 4 -> "Voting"
      [] OTHER -> "Unknown"

\* m with key k set to v
MapSet(m, k, v) ==
    [x \in DOMAIN m \cup {k} |-> IF x = k THEN v ELSE m[x]]

\* m without key k
MapDelete(m, k) == [x \in DOMAIN m \ {k} |-> m[x]]

\* the body of the loop over rewardsAsArray
PostProcessReward(rewardAsMap) ==
    LET m1 == MapSet(rewardAsMap, "commission", JNull)
        m2 == IF "post_balance" \in DOMAIN m1
              THEN MapDelete(MapSet(m1, "postBalance", m1["post_balance"]),
                             "post_balance")
              ELSE m1
        m3 == IF "reward_type" \in DOMAIN m2
              THEN MapDelete(MapSet(m2, "rewardType", m2["reward_type"]),
                             "reward_type")
              ELSE m2
    IN IF "reward_type" \in DOMAIN m2 /\ m3["rewardType"].t = "num"
       THEN MapSet(m3, "rewardType", JStr(rentTypeToString(m3["rewardType"].n)))
       ELSE m3

RewardsNull == [isNull |-> TRUE, items |-> <<>>]

\* ---------------------------------------------------------------------
\* The JSON of a reply (requestContext.Reply)
\* ---------------------------------------------------------------------

\* a []any
JArr(a) == [t |-> "arr", a |-> a]

\* a map[string]any: m is a function from the keys to the values
JMap(m) == [t |-> "map", m |-> m]

\* a string the model keeps as a sequence of digits
JText(v) == [t |-> "text", v |-> v]

Letters ==
    <<"a", "b", "c", "d", "e", "f", "g", "h", "i", "j", "k", "l", "m",
      "n", "o", "p", "q", "r", "s", "t", "u", "v", "w", "x", "y", "z">>

Capitals ==
    <<"A", "B", "C", "D", "E", "F", "G", "H", "I", "J", "K", "L", "M",
      "N", "O", "P", "Q", "R", "S", "T", "U", "V", "W", "X", "Y", "Z">>

\* strings.ToUpper of one character
ToUpper(c) ==
    IF \E i \in DOMAIN Letters : Letters[i] = c
    THEN Capitals[CHOOSE i \in DOMAIN Letters : Letters[i] = c]
    ELSE c

\* strings.ToLower of one character
ToLower(c) ==
    IF \E i \in DOMAIN Capitals : Capitals[i] = c
    THEN Letters[CHOOSE i \in DOMAIN Capitals : Capitals[i] = c]
    ELSE c

RECURSIVE PascalRest(_, _)
\* the loop of bin.ToPascalCase after the first character: an underscore
\* is dropped and raises the character that follows it
PascalRest(in, isToUpper) ==
    IF Len(in) = 0 THEN ""
    ELSE IF isToUpper THEN ToUpper(Head(in)) \o PascalRest(Tail(in), FALSE)
    ELSE IF Head(in) = "_" THEN PascalRest(Tail(in), TRUE)
    ELSE Head(in) \o PascalRest(Tail(in), FALSE)

\* bin.ToPascalCase
ToPascalCase(in) ==
    IF Len(in) = 0 THEN ""
    ELSE ToUpper(Head(in)) \o PascalRest(Tail(in), FALSE)

toLowerCamelCaseOf(pascal) ==
    IF Len(pascal) = 0 THEN ""
    ELSE ToLower(Head(pascal)) \o Tail(pascal)

toLowerCamelCase(v) == toLowerCamelCaseOf(ToPascalCase(v))

RECURSIVE MapToCamelCase(_)
\* the value MapToCamelCase leaves under a key: a map is converted, the
\* maps that are elements of an array are converted in place, and every
\* other value, an array that is an element of an array too, is kept
CamelValue(v) ==
    IF v.t = "map" THEN JMap(MapToCamelCase(v.m))
    ELSE IF v.t = "arr"
    THEN JArr([i \in DOMAIN v.a |->
                 IF v.a[i].t = "map" THEN JMap(MapToCamelCase(v.a[i].m))
                 ELSE v.a[i]])
    ELSE v

\* MapToCamelCase, for a map no two keys of which convert to the same key
MapToCamelCase(m) ==
    [n \in {toLowerCamelCase(k) : k \in DOMAIN m} |->
        CamelValue(m[CHOOSE k \in DOMAIN m : toLowerCamelCase(k) = n])]

\* json.Marshal of a GetTransactionResponse, read back as a map
TxToMapAny(txResp) ==
    [k \in {"meta", "transaction", "version"} |->
        CASE k = "meta" ->
               IF txResp.meta.isNull THEN JNull
               ELSE JMap([x \in {"status"} |-> JText(txResp.meta.status)])
          [] k = "transaction" ->
               JArr(<<JText(txResp.transaction), JStr("base64")>>)
          [] k = "version" ->
               IF txResp.version.legacy THEN JStr("legacy")
               ELSE JNum(txResp.version.n)]

\* toMapAny of a GetBlockResponse, for the fields the model keeps
toMapAny(v) ==
    [k \in {"blockHeight", "blockhash", "parentSlot", "previousBlockhash",
            "rewards", "transactions"} |->
        CASE k = "blockHeight" -> JNum(v.blockHeight)
          [] k = "blockhash" -> JText(v.blockhash)
          [] k = "parentSlot" -> JNum(v.parentSlot)
          [] k = "previousBlockhash" -> JText(v.previousBlockhash)
          [] k = "rewards" ->
               IF v.rewards.isNull THEN JNull
               ELSE JArr([i \in DOMAIN v.rewards.items |->
                            JMap(v.rewards.items[i])])
          [] k = "transactions" ->
               JArr([i \in DOMAIN v.transactions |->
                       JMap(TxToMapAny(v.transactions[i]))])]

\* ---------------------------------------------------------------------
\* Frame reassembly
\* ---------------------------------------------------------------------

RECURSIVE AppendFrames(_, _, _, _, _)
RECURSIVE AppendFrame(_, _, _, _, _, _)
\* the loop over head.Next: fetch each continuation frame and append its
\* data; the first failure ends it
AppendFrames(next, i, acc, lookups, reads) ==
    IF i > Len(next)
    THEN [data |-> acc, err |-> NilErr, frames |-> i - 1,
          lookups |-> lookups, reads |-> reads]
    ELSE AppendFrame(next, i, acc, lookups, reads, GetDataFrameByCid(next[i]))

\* the body of the loop once the data frame getter has returned r
AppendFrame(next, i, acc, lookups, reads, r) ==
    IF r.err # NilErr
    THEN [data |-> <<>>, err |-> r.err, frames |-> i,
          lookups |-> lookups + r.lookups, reads |-> reads + r.reads]
    ELSE AppendFrames(next, i + 1, acc \o r.node.data,
                      lookups + r.lookups, reads + r.reads)

\* one that fetches the continuation frames whatever head.Total is
ReadFramesIgnoringTotal(head) ==
    AppendFrames(head.next, 1, head.data, 0, 0)

\* buffer.Write(head.Data); if head.Total > 1 { for ... range head.Next }
ReadFrames(head) ==
    IF head.total > 1
    THEN AppendFrames(head.next, 1, head.data, 0, 0)
    ELSE [data |-> head.data, err |-> NilErr, frames |-> 0,
          lookups |-> 0, reads |-> 0]

\* what parseTransactionAndMetaFromNode returns, with the fetches of the
\* reassemblies d and m
ParseResult(tx, meta, err, d, m) ==
    [tx |-> tx, meta |-> meta, err |-> err,
     frames |-> d.frames + m.frames, lookups |-> d.lookups + m.lookups,
     reads |-> d.reads + m.reads]

NoFrames == [frames |-> 0, lookups |-> 0, reads |-> 0]

\* the metadata block once the status meta parser has returned p
ParseMetaParsed(u, d, m, p) ==
    \* the naked return: tx as parsed, meta nil, a nil error
    IF p.err # NilErr THEN ParseResult(u.tx, MetaNull, NilErr, d, m)
    ELSE ParseResult(u.tx, [isNull |-> FALSE, status |-> p.status], NilErr, d, m)

\* one that returns the decompressor's error to the caller
ParseMetaDecompressedStrict(u, d, m, z) ==
    IF z.err # NilErr THEN ParseResult(ZeroTx, MetaNull, z.err, d, m)
    ELSE ParseMetaParsed(u, d, m, ParseAnyTransactionStatusMeta(z.out))

\* the metadata block once decompressZstd has returned z
ParseMetaDecompressed(u, d, m, z) ==
    \* the naked return: tx as parsed, meta nil, a nil error
    IF z.err # NilErr THEN ParseResult(u.tx, MetaNull, NilErr, d, m)
    ELSE ParseMetaParsed(u, d, m, ParseAnyTransactionStatusMeta(z.out))

\* the metadata block once the metadata frames are read as m
ParseMeta(u, d, m) ==
    IF m.err # NilErr THEN ParseResult(ZeroTx, MetaNull, m.err, d, m)
    ELSE IF Len(m.data) = 0 THEN ParseResult(u.tx, MetaNull, NilErr, d, m)
    ELSE ParseMetaDecompressed(u, d, m, decompressZstd(m.data))

\* the transaction block once bin.UnmarshalBin has returned u
ParseTx(transactionNode, d, u) ==
    IF u.err # NilErr THEN ParseResult(ZeroTx, MetaNull, u.err, d, NoFrames)
    \* "return solana.Transaction{}, nil, err": err is the nil error of
    \* the successful UnmarshalBin
    ELSE IF u.tx.nsigs = 0 THEN ParseResult(ZeroTx, MetaNull, u.err, d, NoFrames)
    ELSE ParseMeta(u, d, ReadFrames(transactionNode.metadata))

\* the transaction block once the data frames are read as d
ParseData(transactionNode, d) ==
    IF d.err # NilErr THEN ParseResult(ZeroTx, MetaNull, d.err, d, NoFrames)
    ELSE ParseTx(transactionNode, d, UnmarshalBin(d.data))

parseTransactionAndMetaFromNode(transactionNode) ==
    ParseData(transactionNode, ReadFrames(transactionNode.data))

\* ---------------------------------------------------------------------
\* Requests and replies
\* ---------------------------------------------------------------------

\* req.Params: absent (a nil *json.RawMessage), or a JSON value
ParamsSet ==
    {[json |-> j, elems |-> <<>>] : j \in {"absent", "null", "object", "array"}}
    \cup {[json |-> "array", elems |-> <<JStr("x")>>]}
    \cup {[json |-> "array", elems |-> <<JNum(n)>>] : n \in 0..MaxSlot}
    \cup {[json |-> "array", elems |-> <<JNum(1), JStr("base64")>>]}
    \cup {[json |-> "array", elems |-> <<JStr(g)>>] : g \in {"sigT4", "sigT9"}}

\* req.Method
Methods == {"getBlock", "getTransaction", "getFoo", "getblock"}

\* result: "err" for a returned error, "nil" for the (nil, nil) return,
\* "panic" for the nil dereference of raw and the out-of-range params[0]
parseGetBlockRequest(raw) ==
    IF raw.json = "absent" THEN [result |-> "panic", slot |-> 0]
    ELSE IF raw.json \notin {"array", "null"} THEN [result |-> "err", slot |-> 0]
    ELSE IF raw.json = "null" \/ Len(raw.elems) = 0
    THEN [result |-> "panic", slot |-> 0]
    ELSE IF raw.elems[1].t # "num" THEN [result |-> "nil", slot |-> 0]
    ELSE [result |-> "ok", slot |-> raw.elems[1].n]

\* the length of the base58 text of a signature
SigLen == 5

\* solana.SignatureFromBase58: the text must decode to a whole signature
SignatureFromBase58(sigRaw) ==
    IF Len(sigRaw) = SigLen THEN [sig |-> sigRaw, err |-> NilErr]
    ELSE [sig |-> "", err |-> "base58_error"]

\* parseGetTransactionRequest once SignatureFromBase58 has returned g
parseGetTransactionRequestWith(g) ==
    IF g.err # NilErr THEN [result |-> "err", sig |-> ""]
    ELSE [result |-> "ok", sig |-> g.sig]

\* result: as for parseGetBlockRequest
parseGetTransactionRequest(raw) ==
    IF raw.json = "absent" THEN [result |-> "panic", sig |-> ""]
    ELSE IF raw.json \notin {"array", "null"} THEN [result |-> "err", sig |-> ""]
    ELSE IF raw.json = "null" \/ Len(raw.elems) = 0
    THEN [result |-> "panic", sig |-> ""]
    ELSE IF raw.elems[1].t # "str" THEN [result |-> "nil", sig |-> ""]
    ELSE parseGetTransactionRequestWith(SignatureFromBase58(raw.elems[1].s))

NoBlock == Block(0, 0, <<>>, DummyCID)

EmptyResp ==
    [transactions |-> <<>>, blockhash |-> <<>>, parentSlot |-> 0,
     previousBlockhash |-> <<>>, rewards |-> RewardsNull, blockHeight |-> 0]

\* one that replies every error as Invalid params
ReplyWithErrorWrongCode(code, message) ==
    Append(replies, [kind |-> "error", code |-> CodeInvalidParams,
                     message |-> message, result |-> EmptyResp])

\* requestContext.ReplyWithError
ReplyWithError(code, message) ==
    Append(replies, [kind |-> "error", code |-> code, message |-> message,
                     result |-> EmptyResp])

\* requestContext.Reply
Reply(result) ==
    Append(replies, [kind |-> "result", code |-> 0, message |-> "",
                     result |-> result])

\* requestContext.Reply with a GetTransactionResponse
ReplyTransaction(txResp) ==
    Append(replies, [kind |-> "transaction", code |-> 0, message |-> "",
                     result |-> txResp])

NoCalls ==
    [n \in {"lookups", "reads", "GetBlock", "GetEntryByCid",
            "GetTransactionByCid", "GetRewardsByCid", "GetDataFrameByCid",
            "GetTransaction"}
       |-> 0]

\* calls after one typed getter ran with result r, and frames further
\* data frame fetches
Counted(getter, r, frames) ==
    [n \in DOMAIN calls |->
        calls[n]
        + (IF n = "lookups" THEN r.lookups ELSE 0)
        + (IF n = "reads" THEN r.reads ELSE 0)
        + (IF n = getter THEN 1 ELSE 0)
        + (IF n = "GetDataFrameByCid" THEN frames ELSE 0)]

calcBlockHeight(slot) == 0

\* ---------------------------------------------------------------------
\* Init
\* ---------------------------------------------------------------------

Init ==
    /\ \E v \in Variations :
          /\ carReader = CarOf(v)
          /\ cidToOffsetIndex = CidToOffsetOf(v)
    /\ slotToCidIndex = BaseSlotToCid
    /\ sigToCidIndex = BaseSigToCid
    /\ req \in {[method |-> m, params |-> p] : m \in Methods, p \in ParamsSet}
    /\ cancelled = FALSE
    /\ pc = "handle"
    /\ block = NoBlock
    /\ spawned = 0
    /\ tasks = <<>>
    /\ wgErr = NilErr
    /\ allTransactionNodes = <<>>
    /\ lastEntryHash = ZeroHash
    /\ rewards = RewardsNull
    /\ allTransactions = <<>>
    /\ lastParse = [called |-> FALSE,
                    node |-> Transaction(One(<<>>), One(<<>>)),
                    err |-> NilErr]
    /\ blockResp = EmptyResp
    /\ replies = <<>>
    /\ calls = NoCalls
    /\ mm = <<>>
    /\ resRaw = JNull

server == <<carReader, cidToOffsetIndex, slotToCidIndex, sigToCidIndex, req>>

sent == <<mm, resRaw>>

fanout == <<spawned, tasks, wgErr, allTransactionNodes, lastEntryHash>>

assembly == <<rewards, allTransactions, lastParse, blockResp>>

\* ---------------------------------------------------------------------
\* The getBlock handler
\* ---------------------------------------------------------------------

\* the request's context is cancelled while the handler runs
Cancel ==
    /\ pc \notin {"done", "panic"}
    /\ ~cancelled
    /\ cancelled' = TRUE
    /\ UNCHANGED <<server, sent, pc, block, fanout, assembly, replies, calls>>

\* one that hands every method it does not know to getBlock
HandlerOfAny(method) ==
    IF method = "getTransaction" THEN "getTransaction" ELSE "start"

\* the switch of Handle: where the handler of the method starts, or
\* "default" for the methods without one
HandlerOf(method) ==
    CASE method = "getBlock" -> "start"
      [] method = "getTransaction" -> "getTransaction"
      [] OTHER -> "default"

\* rpcServer.Handle
Handle ==
    /\ pc = "handle"
    /\ IF HandlerOf(req.method) = "default"
       THEN /\ replies' = ReplyWithError(CodeMethodNotFound,
                                         "Method not found")
            /\ pc' = "done"
       ELSE /\ pc' = HandlerOf(req.method)
            /\ UNCHANGED replies
    /\ UNCHANGED <<server, sent, cancelled, block, fanout, assembly, calls>>

\* parse the params and fetch the block (getBlock, up to the fan-out)
GetBlockStart ==
    /\ pc = "start"
    /\ LET p == parseGetBlockRequest(req.params) IN
       IF p.result = "err"
       THEN /\ replies' = ReplyWithError(CodeInvalidParams, "Invalid params")
            /\ pc' = "done"
            /\ UNCHANGED <<block, tasks, calls>>
       ELSE IF p.result \in {"panic", "nil"}
       \* params[0] out of range, or params.Slot of a nil *GetBlockRequest
       THEN /\ pc' = "panic"
            /\ UNCHANGED <<block, tasks, calls, replies>>
       ELSE LET b == GetBlock(p.slot) IN
            /\ calls' = Counted("GetBlock", b, 0)
            /\ IF b.err # NilErr
               THEN /\ replies' = ReplyWithError(CodeInternalError,
                                                 "Failed to get block")
                    /\ pc' = "done"
                    /\ UNCHANGED <<block, tasks>>
               ELSE /\ block' = b.node
                    /\ tasks' = [i \in 1..Len(b.node.entries) |->
                                   [st |-> "idle", txs |-> <<>>, j |-> 0]]
                    /\ pc' = "fanout"
                    /\ UNCHANGED replies
    /\ UNCHANGED <<server, sent, cancelled, spawned, wgErr, allTransactionNodes,
                   lastEntryHash, assembly>>

Running == {i \in DOMAIN tasks : tasks[i].st \in {"entry", "txs"}}

\* one the errgroup limit does not hold back
CanGoUnlimited == TRUE

\* wg.Go blocks while the errgroup runs its limit of tasks
CanGo == Cardinality(Running) < NumCPU

\* wg.Go for the next entry of block.Entries
Spawn ==
    /\ pc = "fanout"
    /\ spawned < Len(block.entries)
    /\ CanGo
    /\ spawned' = spawned + 1
    /\ tasks' = [tasks EXCEPT ![spawned + 1].st = "entry"]
    /\ UNCHANGED <<server, sent, cancelled, pc, block, wgErr, allTransactionNodes,
                   lastEntryHash, assembly, replies, calls>>

\* one that lets the task that runs last record its hash
IsLastEntryAny(entryIndex) == TRUE

\* entryIndex == len(block.Entries)-1, with the indexes counted from 1
IsLastEntry(entryIndex) == entryIndex = Len(block.entries)

\* an entry task fetches its entry
TaskEntry(i) ==
    /\ i \in DOMAIN tasks
    /\ tasks[i].st = "entry"
    /\ LET r == GetEntryByCid(block.entries[i]) IN
       /\ calls' = Counted("GetEntryByCid", r, 0)
       /\ IF r.err # NilErr
          THEN /\ tasks' = [tasks EXCEPT ![i].st = "done"]
               /\ wgErr' = IF wgErr = NilErr THEN r.err ELSE wgErr
               /\ UNCHANGED lastEntryHash
          ELSE /\ lastEntryHash' = IF IsLastEntry(i)
                                   THEN HashFromBytes(r.node.hash)
                                   ELSE lastEntryHash
               /\ tasks' = [tasks EXCEPT
                     ![i] = [st |-> IF Len(r.node.transactions) = 0
                                    THEN "done" ELSE "txs",
                             txs |-> r.node.transactions, j |-> 1]]
               /\ UNCHANGED wgErr
    /\ UNCHANGED <<server, sent, cancelled, pc, block, spawned,
                   allTransactionNodes, assembly, replies>>

\* one that puts the node in front of the accumulator
PrependTransactionNode(txNode) == <<txNode>> \o allTransactionNodes

\* one that overwrites the last node, as an append without the mutex can
OverwriteTransactionNode(txNode) ==
    IF Len(allTransactionNodes) = 0 THEN <<txNode>>
    ELSE [allTransactionNodes EXCEPT ![Len(allTransactionNodes)] = txNode]

\* mu.Lock(); allTransactionNodes = append(allTransactionNodes, txNode)
AppendTransactionNode(txNode) == Append(allTransactionNodes, txNode)

\* an entry task fetches its next transaction and appends it under mu
TaskTx(i) ==
    /\ i \in DOMAIN tasks
    /\ tasks[i].st = "txs"
    /\ LET t == tasks[i]
           r == GetTransactionByCid(t.txs[t.j]) IN
       /\ calls' = Counted("GetTransactionByCid", r, 0)
       /\ allTransactionNodes' = IF r.err # NilErr THEN allTransactionNodes
                                 ELSE AppendTransactionNode(r.node)
       /\ tasks' = [tasks EXCEPT
             ![i] = [st |-> IF t.j = Len(t.txs) THEN "done" ELSE "txs",
                     txs |-> t.txs, j |-> t.j + 1]]
    /\ UNCHANGED <<server, sent, cancelled, pc, block, spawned, wgErr,
                   lastEntryHash, assembly, replies>>

\* one that returns no error
WgWaitNil == NilErr

\* what wg.Wait returns: the first error a task returned
WgWait == wgErr

\* one that goes on to the rewards step after the error reply
WaitFallsThrough ==
    /\ pc = "fanout"
    /\ spawned = Len(block.entries)
    /\ \A i \in DOMAIN tasks : tasks[i].st = "done"
    /\ replies' = IF WgWait # NilErr
                  THEN ReplyWithError(CodeInternalError, "Internal error")
                  ELSE replies
    /\ pc' = "rewards"
    /\ UNCHANGED <<server, sent, cancelled, block, fanout, assembly, calls>>

\* one that returns once every task is started, running or not
WaitForSpawnOnly ==
    /\ pc = "fanout"
    /\ spawned = Len(block.entries)
    /\ IF WgWait # NilErr
       THEN /\ replies' = ReplyWithError(CodeInternalError, "Internal error")
            /\ pc' = "done"
       ELSE /\ pc' = "rewards"
            /\ UNCHANGED replies
    /\ UNCHANGED <<server, sent, cancelled, block, fanout, assembly, calls>>

\* wg.Wait returns once every task has returned
Wait ==
    /\ pc = "fanout"
    /\ spawned = Len(block.entries)
    /\ \A i \in DOMAIN tasks : tasks[i].st = "done"
    /\ IF WgWait # NilErr
       THEN /\ replies' = ReplyWithError(CodeInternalError, "Internal error")
            /\ pc' = "done"
       ELSE /\ pc' = "rewards"
            /\ UNCHANGED replies
    /\ UNCHANGED <<server, sent, cancelled, block, fanout, assembly, calls>>

\* what the rewards step does to the request, with the fetches of the
\* Rewards node r and of the reassembly f
\*   outcome "error": an Internal error reply; "panic": panic(err);
\*   "ok": the handler goes on with rewards
RewardsOutcome(outcome, rewardsValue, fetched, r, f) ==
    [outcome |-> outcome, rewards |-> rewardsValue, fetched |-> fetched,
     frames |-> f.frames,
     io |-> [lookups |-> r.lookups + f.lookups, reads |-> r.reads + f.reads]]

\* the rewards step once solanablockrewards.ParseRewards has returned p
RewardsParsed(r, f, p) ==
    \* "Rewards are not protobuf" and "did not find rewards field": the
    \* handler goes on with rewards nil
    IF p.err # NilErr \/ ~p.hasRewards
    THEN RewardsOutcome("ok", RewardsNull, 1, r, f)
    ELSE RewardsOutcome("ok",
            [isNull |-> FALSE,
             items |-> [i \in DOMAIN p.rewards |->
                          PostProcessReward(p.rewards[i])]],
            1, r, f)

\* the rewards step once decompressZstd has returned z
RewardsDecompressed(r, f, z) ==
    IF z.err # NilErr THEN RewardsOutcome("panic", RewardsNull, 1, r, f)
    ELSE RewardsParsed(r, f, ParseRewards(z.out))

\* the rewards step once the frames are read as f
RewardsRead(r, f) ==
    IF f.err # NilErr THEN RewardsOutcome("error", RewardsNull, 1, r, f)
    ELSE RewardsDecompressed(r, f, decompressZstd(f.data))

\* the rewards step once GetRewardsByCid has returned r
RewardsFetched(r) ==
    IF r.err # NilErr THEN RewardsOutcome("error", RewardsNull, 1, r, NoFrames)
    ELSE RewardsRead(r, ReadFrames(r.node.data))

\* one that fetches the Rewards node whatever block.rewards is
RewardsStepAlways == RewardsFetched(GetRewardsByCid(block.rewards))

\* the rewards step of getBlock
RewardsStep ==
    IF block.rewards = DummyCID
    THEN RewardsOutcome("ok", RewardsNull, 0, NoFrames, NoFrames)
    ELSE RewardsFetched(GetRewardsByCid(block.rewards))

\* the rewards of the block (getBlock, after the fan-out)
GetBlockRewards ==
    /\ pc = "rewards"
    /\ LET s == RewardsStep IN
       /\ calls' = [n \in DOMAIN calls |->
                      calls[n]
                      + (IF n = "lookups" THEN s.io.lookups ELSE 0)
                      + (IF n = "reads" THEN s.io.reads ELSE 0)
                      + (IF n = "GetRewardsByCid" THEN s.fetched ELSE 0)
                      + (IF n = "GetDataFrameByCid" THEN s.frames ELSE 0)]
       /\ rewards' = s.rewards
       /\ IF s.outcome = "error"
          THEN /\ replies' = ReplyWithError(CodeInternalError, "Internal error")
               /\ pc' = "done"
          ELSE /\ pc' = IF s.outcome = "panic" THEN "panic" ELSE "assemble"
               /\ UNCHANGED replies
    /\ UNCHANGED <<server, sent, cancelled, block, fanout, allTransactions,
                   lastParse, blockResp>>

\* tx.ToBase64(): whether solana-go marshals the zero Transaction{} or
\* rejects it is the library's choice
ToBase64Results(tx) ==
    IF tx.nsigs = 0
    THEN {[b64 |-> Base64(tx.raw), err |-> NilErr],
          [b64 |-> <<>>, err |-> "marshal_error"]}
    ELSE {[b64 |-> Base64(tx.raw), err |-> NilErr]}

\* the GetTransactionResponse of the parsed transaction p: "legacy" or
\* the version less one, the meta, and the transaction in base 64
TxResponse(p, b64Tx) ==
    [version |-> [legacy |-> p.tx.version = 0,
                  n |-> IF p.tx.version = 0 THEN 0 ELSE p.tx.version - 1],
     meta |-> p.meta,
     transaction |-> b64Tx,
     nsigs |-> p.tx.nsigs]

\* the body of the loop over allTransactionNodes, for the next node
AssembleTx ==
    /\ pc = "assemble"
    /\ Len(allTransactions) < Len(allTransactionNodes)
    /\ LET transactionNode == allTransactionNodes[Len(allTransactions) + 1]
           p == parseTransactionAndMetaFromNode(transactionNode) IN
       /\ lastParse' = [called |-> TRUE, node |-> transactionNode,
                        err |-> p.err]
       /\ calls' = [n \in DOMAIN calls |->
                      calls[n]
                      + (IF n = "lookups" THEN p.lookups ELSE 0)
                      + (IF n = "reads" THEN p.reads ELSE 0)
                      + (IF n = "GetDataFrameByCid" THEN p.frames ELSE 0)]
       /\ IF p.err # NilErr
          THEN /\ replies' = ReplyWithError(CodeInternalError, "Internal error")
               /\ pc' = "done"
               /\ UNCHANGED allTransactions
          ELSE \E e \in ToBase64Results(p.tx) :
               IF e.err # NilErr
               THEN /\ replies' = ReplyWithError(CodeInternalError,
                                                 "Internal error")
                    /\ pc' = "done"
                    /\ UNCHANGED allTransactions
               ELSE /\ allTransactions' =
                          Append(allTransactions, TxResponse(p, e.b64))
                    /\ UNCHANGED <<pc, replies>>
    /\ UNCHANGED <<server, sent, cancelled, block, fanout, rewards, blockResp>>

\* what the parent step does to the request, with the fetches of the
\* parent block pb and of its last entry pe
ParentOutcome(outcome, previousBlockhash, blocks, entries, pb, pe) ==
    [outcome |-> outcome, previousBlockhash |-> previousBlockhash,
     blocks |-> blocks, entries |-> entries,
     io |-> [lookups |-> pb.lookups + pe.lookups,
             reads |-> pb.reads + pe.reads]]

\* the parent step once GetEntryByCid has returned pe
ParentEntryFetched(pb, pe) ==
    IF pe.err # NilErr THEN ParentOutcome("error", <<>>, 1, 1, pb, pe)
    ELSE ParentOutcome("ok", Base58(HashFromBytes(pe.node.hash)), 1, 1, pb, pe)

\* the parent step once GetBlock has returned pb
ParentFetched(pb) ==
    IF pb.err # NilErr THEN ParentOutcome("error", <<>>, 1, 0, pb, NoFrames)
    ELSE IF Len(pb.node.entries) = 0
    \* parentBlock.Entries[len(parentBlock.Entries)-1]: index out of range
    THEN ParentOutcome("panic", <<>>, 1, 0, pb, NoFrames)
    ELSE ParentEntryFetched(pb,
            GetEntryByCid(pb.node.entries[Len(pb.node.entries)]))

\* one that leaves previousBlockhash empty and fetches nothing
ParentStepNone == ParentOutcome("ok", <<>>, 0, 0, NoFrames, NoFrames)

\* the parent's last entry (getBlock, "get parent slot")
ParentStep ==
    IF block.parent_slot = 0
    THEN ParentOutcome("ok", <<>>, 0, 0, NoFrames, NoFrames)
    ELSE ParentFetched(GetBlock(block.parent_slot))

\* fill in the response and resolve the parent's blockhash
GetBlockParent ==
    /\ pc = "assemble"
    /\ Len(allTransactions) = Len(allTransactionNodes)
    /\ LET s == ParentStep IN
       /\ calls' = [n \in DOMAIN calls |->
                      calls[n]
                      + (IF n = "lookups" THEN s.io.lookups ELSE 0)
                      + (IF n = "reads" THEN s.io.reads ELSE 0)
                      + (IF n = "GetBlock" THEN s.blocks ELSE 0)
                      + (IF n = "GetEntryByCid" THEN s.entries ELSE 0)]
       /\ blockResp' = [transactions |-> allTransactions,
                        blockhash |-> Base58(lastEntryHash),
                        parentSlot |-> block.parent_slot,
                        previousBlockhash |-> s.previousBlockhash,
                        rewards |-> rewards,
                        blockHeight |-> calcBlockHeight(block.slot)]
       /\ IF s.outcome = "error"
          THEN /\ replies' = ReplyWithError(CodeInternalError, "Internal error")
               /\ pc' = "done"
          ELSE /\ pc' = IF s.outcome = "panic" THEN "panic" ELSE "reply"
               /\ UNCHANGED replies
    /\ UNCHANGED <<server, sent, cancelled, block, fanout, rewards,
                   allTransactions, lastParse>>

\* conn.Reply with the response
GetBlockReply ==
    /\ pc = "reply"
    /\ mm' = toMapAny(blockResp)
    /\ resRaw' = JMap(MapToCamelCase(toMapAny(blockResp)))
    /\ replies' = Reply(blockResp)
    /\ pc' = "done"
    /\ UNCHANGED <<server, cancelled, block, fanout, assembly, calls>>

NoTxResponse == TxResponse([tx |-> ZeroTx, meta |-> MetaNull], <<>>)

\* what getTransaction does to the request, with the fetch t of the node
\* and the parse p
TransactionOutcome(outcome, txResp, t, p) ==
    [outcome |-> outcome, txResp |-> txResp, frames |-> p.frames,
     io |-> [lookups |-> t.lookups + p.lookups, reads |-> t.reads + p.reads]]

\* getTransaction once the node is parsed as p: one outcome for each
\* result of tx.ToBase64()
GetTransactionParsed(t, p) ==
    IF p.err # NilErr THEN {TransactionOutcome("error", NoTxResponse, t, p)}
    ELSE {IF e.err # NilErr
          THEN TransactionOutcome("error", NoTxResponse, t, p)
          ELSE TransactionOutcome("ok", TxResponse(p, e.b64), t, p) :
             e \in ToBase64Results(p.tx)}

\* getTransaction once GetTransaction has returned t
GetTransactionFetched(t) ==
    IF t.err # NilErr
    THEN {TransactionOutcome("error", NoTxResponse, t, NoFrames)}
    ELSE GetTransactionParsed(t, parseTransactionAndMetaFromNode(t.node))

\* the getTransaction handler: parse the params, resolve the signature,
\* fetch and parse the transaction, reply
GetTransactionHandler ==
    /\ pc = "getTransaction"
    /\ LET p == parseGetTransactionRequest(req.params) IN
       IF p.result \in {"err", "nil"}
       THEN /\ replies' = ReplyWithError(CodeInvalidParams, "Invalid params")
            /\ pc' = "done"
            /\ UNCHANGED <<sent, calls>>
       ELSE IF p.result = "panic"
       THEN /\ pc' = "panic"
            /\ UNCHANGED <<sent, calls, replies>>
       ELSE \E s \in GetTransactionFetched(GetTransaction(p.sig)) :
            /\ calls' = [n \in DOMAIN calls |->
                           calls[n]
                           + (IF n = "lookups" THEN s.io.lookups ELSE 0)
                           + (IF n = "reads" THEN s.io.reads ELSE 0)
                           + (IF n = "GetTransaction" THEN 1 ELSE 0)
                           + (IF n = "GetDataFrameByCid" THEN s.frames
                              ELSE 0)]
            /\ pc' = "done"
            /\ IF s.outcome = "error"
               THEN /\ replies' = ReplyWithError(CodeInternalError,
                                                 "Internal error")
                    /\ UNCHANGED sent
               ELSE /\ mm' = TxToMapAny(s.txResp)
                    /\ resRaw' = JMap(MapToCamelCase(TxToMapAny(s.txResp)))
                    /\ replies' = ReplyTransaction(s.txResp)
    /\ UNCHANGED <<server, cancelled, block, fanout, assembly>>

Next ==
    \/ Cancel
    \/ Handle
    \/ GetTransactionHandler
    \/ GetBlockStart
    \/ Spawn
    \/ \E i \in DOMAIN tasks : TaskEntry(i)
    \/ \E i \in DOMAIN tasks : TaskTx(i)
    \/ Wait
    \/ GetBlockRewards
    \/ AssembleTx
    \/ GetBlockParent
    \/ GetBlockReply

Spec == Init /\ [][Next]_vars

\* the goroutines of the fan-out keep running: the handler's loop over
\* block.Entries goes on when wg.Go lets it, and a task of the errgroup
\* that can take a step takes one
FairSpec ==
    /\ Spec
    /\ WF_vars(Spawn)
    /\ WF_vars(\E i \in DOMAIN tasks : TaskEntry(i))
    /\ WF_vars(\E i \in DOMAIN tasks : TaskTx(i))

\* ---------------------------------------------------------------------
\* MapToCamelCase on its own
\* ---------------------------------------------------------------------

CamelKeys == {"id", "post_balance", "rewardType", "Pre_token"}

\* a map of one key
OneKey(k, v) == [x \in {k} |-> v]

\* the values a key of the outer map holds, built around an inner map
\* with the key k: the inner map itself, in an array, in an array of an
\* array, beside a number, under a map, and under a map of an array
CamelShapes(k) ==
    LET inner == JMap(OneKey(k, JNum(1))) IN
    { inner,
      JArr(<<inner>>),
      JArr(<<JArr(<<inner>>)>>),
      JArr(<<JNum(1), inner>>),
      JMap(OneKey(k, JArr(<<inner>>))),
      JArr(<<JMap(OneKey(k, JArr(<<JArr(<<inner>>)>>)))>>) }

\* the maps handed to MapToCamelCase
CamelInputs ==
    {OneKey(k, JNum(1)) : k \in CamelKeys}
    \cup UNION { {OneKey(k1, v) : v \in CamelShapes(k2)} :
                 k1 \in CamelKeys, k2 \in CamelKeys }

\* a server at rest and a map to convert
CamelInit ==
    /\ carReader = BaseCar
    /\ cidToOffsetIndex = BaseCidToOffset
    /\ slotToCidIndex = BaseSlotToCid
    /\ sigToCidIndex = BaseSigToCid
    /\ req = [method |-> "getBlock",
              params |-> [json |-> "absent", elems |-> <<>>]]
    /\ cancelled = FALSE
    /\ pc = "done"
    /\ block = NoBlock
    /\ spawned = 0
    /\ tasks = <<>>
    /\ wgErr = NilErr
    /\ allTransactionNodes = <<>>
    /\ lastEntryHash = ZeroHash
    /\ rewards = RewardsNull
    /\ allTransactions = <<>>
    /\ lastParse = [called |-> FALSE,
                    node |-> Transaction(One(<<>>), One(<<>>)),
                    err |-> NilErr]
    /\ blockResp = EmptyResp
    /\ replies = <<>>
    /\ calls = NoCalls
    /\ mm \in CamelInputs
    /\ resRaw = JNull

\* result = MapToCamelCase(mm)
ApplyMapToCamelCase ==
    /\ resRaw = JNull
    /\ resRaw' = JMap(MapToCamelCase(mm))
    /\ UNCHANGED <<server, mm, cancelled, pc, block, fanout, assembly,
                   replies, calls>>

CamelNext == ApplyMapToCamelCase

CamelSpec == CamelInit /\ [][CamelNext]_vars

\* ---------------------------------------------------------------------
\* Properties
\* ---------------------------------------------------------------------

\* the params of a getBlock request as parseGetBlockRequest reads them
Parsed ==
    IF req.method = "getBlock" THEN parseGetBlockRequest(req.params)
    ELSE [result |-> "none", slot |-> 0]

InternalErrorReply ==
    [kind |-> "error", code |-> CodeInternalError,
     message |-> "Internal error", result |-> EmptyResp]

Succeeded == Len(replies) > 0 /\ replies[Len(replies)].kind = "result"

FanOutOver == pc \notin {"start", "fanout"}

\* C1: reading a record whose CID differs from the wanted one is an error,
\* for GetNodeByOffset and for GetNodeByCid
C1_CidMismatchIsAnError ==
    \A c \in DOMAIN cidToOffsetIndex :
        LET offset == cidToOffsetIndex[c] IN
        (offset \in DOMAIN carReader /\ carReader[offset].cid # c)
        => /\ GetNodeByOffset(c, offset).err # NilErr
           /\ GetNodeByCid(c).err # NilErr

\* the node's data reassembles and parses to a transaction without signatures
EmptySignatures(node) ==
    LET d == ReadFrames(node.data) IN
    /\ d.err = NilErr
    /\ UnmarshalBin(d.data).err = NilErr
    /\ UnmarshalBin(d.data).tx.nsigs = 0

\* C2: a transaction whose parsed signature list is empty makes
\* parseTransactionAndMetaFromNode return an error, and no response
\* carries such a transaction
C2_EmptySignaturesRefused ==
    /\ (lastParse.called /\ EmptySignatures(lastParse.node))
       => lastParse.err # NilErr
    /\ \A i \in DOMAIN allTransactions : allTransactions[i].nsigs # 0

\* C3 as stated: every error reply to a request with valid params is
\* -32603 with the message "Internal error"
C3_EveryFailureIsInternalError ==
    \A i \in DOMAIN replies :
        (Parsed.result = "ok" /\ replies[i].kind = "error")
        => replies[i] = InternalErrorReply

\* C3 amended: every error reply to a request with valid params has the
\* code -32603; its message is "Failed to get block" when the requested
\* block is not found, not read or not decoded, and "Internal error" on
\* every later failure
C3_InternalErrorCodeAndMessages ==
    \A i \in DOMAIN replies :
        (Parsed.result = "ok" /\ replies[i].kind = "error")
        => /\ replies[i].code = CodeInternalError
           /\ replies[i].message =
                 IF GetBlock(Parsed.slot).err # NilErr
                 THEN "Failed to get block" ELSE "Internal error"

C3_Witness ==
    /\ pc = "done"
    /\ Parsed.result = "ok"
    /\ Parsed.slot \notin DOMAIN slotToCidIndex
    /\ Len(replies) = 1
    /\ replies[1].message = "Failed to get block"

InvalidParams(raw) ==
    \/ raw.json # "array"
    \/ Len(raw.elems) = 0
    \/ raw.elems[1].t # "num"

\* C4: a request with invalid params ends with the single reply -32602
\* "Invalid params" and without an index lookup or an archive read
C4_InvalidParamsRejected ==
    (pc \in {"done", "panic"} /\ req.method = "getBlock"
     /\ InvalidParams(req.params))
    => /\ Len(replies) = 1
       /\ replies[1].kind = "error"
       /\ replies[1].code = CodeInvalidParams
       /\ replies[1].message = "Invalid params"
       /\ calls["lookups"] = 0
       /\ calls["reads"] = 0

SomeEntryFails ==
    \E i \in DOMAIN block.entries :
        GetEntryByCid(block.entries[i]).err # NilErr

\* the transactions of the block: (entry index, index in the entry, CID)
BlockTxs ==
    UNION { { <<i, j, GetEntryByCid(block.entries[i]).node.transactions[j]>> :
                j \in DOMAIN GetEntryByCid(block.entries[i]).node.transactions }
            : i \in DOMAIN block.entries }

FetchableTxs == {t \in BlockTxs : GetTransactionByCid(t[3]).err = NilErr}

\* C5: after the fan-out, a failed entry means the request ended with the
\* Internal error reply and no result; without a failed entry the
\* accumulator holds every transaction that could be fetched, and only a
\* transaction that could not be fetched is left out
C5_TxFailureSkippedEntryFailureFatal ==
    FanOutOver =>
        IF SomeEntryFails
        THEN pc = "done" /\ replies = <<InternalErrorReply>>
        ELSE /\ Len(allTransactionNodes) = Cardinality(FetchableTxs)
             /\ \A t \in FetchableTxs :
                  \E k \in DOMAIN allTransactionNodes :
                     allTransactionNodes[k] = GetTransactionByCid(t[3]).node

\* a request that succeeds although a transaction of an entry could not
\* be fetched, with the other transactions in the response
C5_Witness ==
    /\ pc = "done"
    /\ Succeeded
    /\ FetchableTxs # BlockTxs
    /\ Len(replies[1].result.transactions) = Cardinality(FetchableTxs)
    /\ Cardinality(FetchableTxs) >= 2

\* C6: a successful response for a block with entries has the parentSlot
\* of the block and, as blockhash, the base58 of the hash of the entry at
\* the last index of block.entries
C6_BlockhashIsLastEntryHash ==
    \A i \in DOMAIN replies :
        (replies[i].kind = "result" /\ Len(block.entries) > 0)
        => /\ replies[i].result.parentSlot = block.parent_slot
           /\ replies[i].result.blockhash =
                 Base58(HashFromBytes(
                    GetEntryByCid(block.entries[Len(block.entries)])
                        .node.hash))

C6_Witness ==
    /\ Succeeded
    /\ Len(block.entries) = 3
    /\ replies[1].result.parentSlot = block.parent_slot
    /\ replies[1].result.blockhash = Base58(<<1, 200>>)

ParentBlock == GetBlock(block.parent_slot)

ParentLastEntry ==
    GetEntryByCid(ParentBlock.node.entries[Len(ParentBlock.node.entries)])

\* C7: once the parent step is over, a block with parent_slot = 0 has an
\* empty previousBlockhash and no parent fetch was made; a block with
\* another parent_slot went on only if the parent block and its last
\* entry were fetched, with one GetBlock and one GetEntryByCid more than
\* the block itself needed, and has the base58 of that entry's hash
C7_PreviousBlockhash ==
    (pc = "reply" \/ Succeeded) =>
        IF block.parent_slot = 0
        THEN /\ blockResp.previousBlockhash = <<>>
             /\ calls["GetBlock"] = 1
             /\ calls["GetEntryByCid"] = Len(block.entries)
        ELSE /\ ParentBlock.err = NilErr
             /\ ParentLastEntry.err = NilErr
             /\ blockResp.previousBlockhash =
                   Base58(HashFromBytes(ParentLastEntry.node.hash))
             /\ calls["GetBlock"] = 2
             /\ calls["GetEntryByCid"] = Len(block.entries) + 1

C7_Witness ==
    /\ Succeeded
    /\ block.parent_slot # 0
    /\ replies[1].result.previousBlockhash = Base58(<<1, 200>>)
    /\ calls["GetBlock"] = 2

\* producing the rewards of the block fails somewhere
RewardsFail ==
    /\ block.rewards # DummyCID
    /\ LET r == GetRewardsByCid(block.rewards) IN
       \/ r.err # NilErr
       \/ LET f == ReadFrames(r.node.data) IN
          \/ f.err # NilErr
          \/ LET z == decompressZstd(f.data) IN
             \/ z.err # NilErr
             \/ ParseRewards(z.out).err # NilErr
             \/ ~ParseRewards(z.out).hasRewards

\* C8: once the rewards step is over, a failure to produce the rewards
\* has ended the request with the Internal error reply
C8_RewardsFailureFailsTheRequest ==
    (pc \in {"assemble", "reply", "done", "panic"} /\ ~SomeEntryFails
     /\ RewardsFail)
    => pc = "done" /\ replies = <<InternalErrorReply>>

\* C9: a transaction whose data head names a total other than the number
\* of frames appended plus one is refused by parseTransactionAndMetaFromNode
C9_FrameCountMismatchFails ==
    LET d == ReadFrames(lastParse.node.data) IN
    (lastParse.called /\ d.err = NilErr
     /\ d.frames + 1 # lastParse.node.data.total)
    => lastParse.err # NilErr

\* C10: once the context is cancelled no entry task is started, no lookup
\* or read is made and no reply is emitted
C10_CancelStopsTheHandler ==
    [][cancelled => (spawned' = spawned /\ calls' = calls
                     /\ replies' = replies)]_vars

\* where the node of the transaction with this CID stands in the accumulator
PositionsOf(cid) ==
    {k \in DOMAIN allTransactionNodes :
        allTransactionNodes[k] = GetTransactionByCid(cid).node}

\* C11: whatever the interleaving of the entry tasks, two transactions of
\* the same entry stand in the accumulator, and so in the transactions of
\* the response, in the order of that entry's transactions list
C11_EntryOrderPreserved ==
    /\ (block # NoBlock /\ ~SomeEntryFails) =>
          \A t \in FetchableTxs : \A u \in FetchableTxs :
             (t[1] = u[1] /\ t[2] < u[2]) =>
                \A k \in PositionsOf(t[3]) : \A l \in PositionsOf(u[3]) : k < l
    /\ \A i \in DOMAIN replies :
          replies[i].kind = "result" =>
             /\ Len(replies[i].result.transactions) = Len(allTransactionNodes)
             /\ \A k \in DOMAIN allTransactionNodes :
                   replies[i].result.transactions[k].transaction =
                      Base64(parseTransactionAndMetaFromNode(
                                allTransactionNodes[k]).tx.raw)

\* a response where a transaction of another entry stands between the two
\* transactions of one entry
C11_Witness ==
    /\ Succeeded
    /\ ~SomeEntryFails
    /\ \E t \in FetchableTxs : \E u \in FetchableTxs : \E w \in FetchableTxs :
          /\ t[1] = u[1] /\ t[2] < u[2] /\ w[1] # t[1]
          /\ \E k \in PositionsOf(t[3]) : \E l \in PositionsOf(u[3]) :
                \E m \in PositionsOf(w[3]) :
                   /\ k < m /\ m < l
                   /\ replies[1].result.transactions[k].transaction
                        # replies[1].result.transactions[l].transaction

\* the nodes the accumulator is to hold: those of the fetchable transactions
FetchedNodes == {GetTransactionByCid(t[3]).node : t \in FetchableTxs}

\* C12: once the fan-out is over without a failed entry, the accumulator
\* holds each node as many times as fetchable transactions of the block
\* have it, no more and no less; and the transactions of a successful
\* response are as many as the transactions of the block when each of them
\* could be fetched
C12_NoLostOrDuplicatedAppend ==
    /\ (FanOutOver /\ ~SomeEntryFails) =>
          /\ \A k \in DOMAIN allTransactionNodes :
                allTransactionNodes[k] \in FetchedNodes
          /\ \A n \in FetchedNodes :
                Cardinality({k \in DOMAIN allTransactionNodes :
                                allTransactionNodes[k] = n})
                = Cardinality({t \in FetchableTxs :
                                  GetTransactionByCid(t[3]).node = n})
    /\ \A i \in DOMAIN replies :
          (replies[i].kind = "result" /\ FetchableTxs = BlockTxs) =>
             Len(replies[i].result.transactions) = Cardinality(BlockTxs)

\* a response with the three transactions of a block of three entries
C12_Witness ==
    /\ Succeeded
    /\ Len(block.entries) = 3
    /\ FetchableTxs = BlockTxs
    /\ Cardinality(BlockTxs) = 3
    /\ Len(replies[1].result.transactions) = 3

\* the node's data reassembles and parses to a transaction with signatures
ValidData(node) ==
    LET d == ReadFrames(node.data) IN
    /\ d.err = NilErr
    /\ UnmarshalBin(d.data).err = NilErr
    /\ UnmarshalBin(d.data).tx.nsigs > 0

\* the node's metadata reassembles to bytes that the decompressor or the
\* status meta parser rejects
CorruptMeta(node) ==
    LET m == ReadFrames(node.metadata) IN
    /\ m.err = NilErr
    /\ Len(m.data) > 0
    /\ \/ decompressZstd(m.data).err # NilErr
       \/ ParseAnyTransactionStatusMeta(decompressZstd(m.data).out).err
             # NilErr

\* the meta of the response for a node whose metadata is not corrupted
SoundMeta(node) ==
    LET m == ReadFrames(node.metadata) IN
    IF Len(m.data) = 0 THEN MetaNull
    ELSE [isNull |-> FALSE,
          status |-> ParseAnyTransactionStatusMeta(
                        decompressZstd(m.data).out).status]

\* C13: a transaction whose reassembled metadata the decompressor or the
\* parser rejects is parsed without an error and stands in the response
\* with a null meta, its transaction and its version; the other
\* transactions of the response are what their own nodes give
C13_CorruptMetaIsNull ==
    /\ (lastParse.called /\ ValidData(lastParse.node)
        /\ CorruptMeta(lastParse.node))
       => lastParse.err = NilErr
    /\ \A k \in DOMAIN allTransactions :
          LET node == allTransactionNodes[k]
              data == ReadFrames(node.data).data IN
          ValidData(node) =>
             /\ allTransactions[k].transaction = Base64(data)
             /\ allTransactions[k].version =
                   [legacy |-> data[2] = 0,
                    n |-> IF data[2] = 0 THEN 0 ELSE data[2] - 1]
             /\ allTransactions[k].meta =
                   IF CorruptMeta(node) THEN MetaNull ELSE SoundMeta(node)

\* a successful response of three transactions, one with corrupted
\* metadata and a null meta, another with its meta
C13_Witness ==
    /\ Succeeded
    /\ Len(replies[1].result.transactions) = 3
    /\ \E k \in DOMAIN allTransactionNodes :
          /\ CorruptMeta(allTransactionNodes[k])
          /\ replies[1].result.transactions[k].meta = MetaNull
          /\ replies[1].result.transactions[k].transaction = Base64(TxLegacy)
          /\ replies[1].result.transactions[k].version.legacy
    /\ \E k \in DOMAIN allTransactionNodes :
          ~replies[1].result.transactions[k].meta.isNull

\* the rewards step is over and no transaction has been reassembled yet
RewardsStepJustOver ==
    pc = "assemble" /\ Len(allTransactions) = 0 /\ ~lastParse.called

\* C14: for a block whose rewards link is the dummy CID no Rewards node
\* and, up to the end of the rewards step, no data frame is fetched, and
\* the rewards of the response are null; for another block the Rewards
\* node is fetched once by the time the rewards step is over, and never
\* more than once
C14_DummyRewardsSkipped ==
    block # NoBlock =>
        IF block.rewards = DummyCID
        THEN /\ calls["GetRewardsByCid"] = 0
             /\ RewardsStepJustOver => calls["GetDataFrameByCid"] = 0
             /\ rewards = RewardsNull
             /\ \A i \in DOMAIN replies :
                   replies[i].kind = "result"
                   => replies[i].result.rewards = RewardsNull
        ELSE /\ calls["GetRewardsByCid"] <= 1
             /\ (pc \in {"assemble", "reply"} \/ Succeeded)
                => calls["GetRewardsByCid"] = 1

\* a successful response with null rewards for a block, with entries and
\* transactions, whose rewards link is the dummy CID
C14_Witness ==
    /\ Succeeded
    /\ block.rewards = DummyCID
    /\ Len(block.entries) = 3
    /\ replies[1].result.rewards = RewardsNull
    /\ calls["GetRewardsByCid"] = 0
    /\ calls["GetTransactionByCid"] = 3

\* the record the CID index names for c holds c with a payload other than
\* the one the archive was written with
PayloadPerturbed(c) ==
    /\ c \in DOMAIN cidToOffsetIndex
    /\ cidToOffsetIndex[c] = OffsetOf(c)
    /\ carReader[cidToOffsetIndex[c]].cid = c
    /\ carReader[cidToOffsetIndex[c]].data # BaseNodes[c]

\* C15: a request that has read a record whose payload was perturbed,
\* the stored CID and the indexes left as they were, ends with the
\* Internal error reply
C15_PerturbedPayloadFails ==
    (pc \in {"done", "panic"} /\ block # NoBlock /\ ~SomeEntryFails
     /\ \E t \in FetchableTxs : PayloadPerturbed(t[3]))
    => replies = <<InternalErrorReply>>

RewardTypeNames == {"Fee", "Rent", "Staking", "Voting", "Unknown"}

\* C16: every element of parsed rewards has a null commission and a
\* rewardType that is one of the five names, and keeps neither
\* post_balance nor reward_type
C16_RewardElementsNormalised ==
    \A i \in DOMAIN rewards.items :
        LET e == rewards.items[i] IN
        /\ "commission" \in DOMAIN e
        /\ e["commission"] = JNull
        /\ "rewardType" \in DOMAIN e
        /\ e["rewardType"].t = "str"
        /\ e["rewardType"].s \in RewardTypeNames
        /\ "post_balance" \notin DOMAIN e
        /\ "reward_type" \notin DOMAIN e

RECURSIVE ConvertedThroughout(_)
\* the value with the keys of every map in it converted
ConvertedThroughout(v) ==
    IF v.t = "map"
    THEN JMap([n \in {toLowerCamelCase(k) : k \in DOMAIN v.m} |->
                 ConvertedThroughout(
                    v.m[CHOOSE k \in DOMAIN v.m : toLowerCamelCase(k) = n])])
    ELSE IF v.t = "arr"
    THEN JArr([i \in DOMAIN v.a |-> ConvertedThroughout(v.a[i])])
    ELSE v

\* C17: what MapToCamelCase returns is its argument with the keys of
\* every map in it, through any nesting of maps and arrays, converted to
\* lowerCamelCase and nothing else changed
C17_EveryNestedKeyConverted ==
    resRaw # JNull => resRaw = ConvertedThroughout(JMap(mm))

MethodNotFoundReply ==
    [kind |-> "error", code |-> CodeMethodNotFound,
     message |-> "Method not found", result |-> EmptyResp]

\* where a request of this method is once Handle has run
DispatchedTo(method) ==
    IF method = "getBlock" THEN "start"
    ELSE IF method = "getTransaction" THEN "getTransaction"
    ELSE "done"

\* C18: Handle passes a getBlock request to getBlock and a getTransaction
\* request to getTransaction, without a reply, a lookup or a read of its
\* own, and neither request enters the other handler; a request of any
\* other method gets the one reply -32601 "Method not found", no handler
\* runs for it, and no index lookup or archive read is made
C18_HandleDispatches ==
    /\ [][(pc = "handle" /\ pc' # "handle")
           => /\ pc' = DispatchedTo(req.method)
              /\ calls' = calls
              /\ replies' = IF req.method \in {"getBlock", "getTransaction"}
                            THEN replies ELSE <<MethodNotFoundReply>>]_vars
    /\ [](req.method = "getBlock"
           => /\ pc # "getTransaction"
              /\ calls["GetTransaction"] = 0
              /\ \A i \in DOMAIN replies :
                    replies[i].code # CodeMethodNotFound)
    /\ [](req.method = "getTransaction"
           => /\ pc \in {"handle", "getTransaction", "done", "panic"}
              /\ calls["GetBlock"] = 0
              /\ pc \in {"handle", "getTransaction"}
                 => replies = <<>> /\ calls = NoCalls)
    /\ [](req.method \notin {"getBlock", "getTransaction"}
           => /\ pc \in {"handle", "done"}
              /\ calls = NoCalls
              /\ replies = IF pc = "done" THEN <<MethodNotFoundReply>>
                           ELSE <<>>)

\* a request of an unknown method with the params of a getBlock request,
\* answered with "Method not found" and nothing looked up or read
C18_Witness ==
    /\ pc = "done"
    /\ req.method = "getFoo"
    /\ parseGetBlockRequest(req.params).result = "ok"
    /\ replies = <<MethodNotFoundReply>>
    /\ calls = NoCalls
    /\ block = NoBlock

\* C19: during the fan-out no more than NumCPU entry tasks run at once;
\* an entry is started only while fewer than NumCPU tasks run, the
\* entries are started one by one in the order of block.entries, a
\* started task is never started again, and every entry of the block is
\* started in the end
C19_BoundedFanOut ==
    /\ [](Cardinality(Running) <= NumCPU)
    /\ [][spawned' # spawned
           => /\ Cardinality(Running) < NumCPU
              /\ spawned' = spawned + 1
              /\ tasks[spawned'].st = "idle"
              /\ tasks'[spawned'].st = "entry"
              /\ \A i \in DOMAIN tasks \ {spawned'} :
                    tasks'[i] = tasks[i]]_vars
    /\ [][\A i \in DOMAIN tasks :
             /\ tasks[i].st # tasks'[i].st
                => \/ tasks[i].st = "idle" /\ i = spawned + 1
                   \/ tasks[i].st = "entry" /\ tasks'[i].st \in {"txs", "done"}
                   \/ tasks[i].st = "txs" /\ tasks'[i].st = "done"
             /\ (i <= spawned) = (tasks[i].st # "idle")]_vars
    /\ [](FanOutOver /\ block # NoBlock
           => /\ spawned = Len(block.entries)
              /\ \A i \in DOMAIN tasks : tasks[i].st = "done")
    /\ (pc = "fanout" ~> (spawned = Len(block.entries)))

\* NumCPU tasks are running and an entry of the block waits to be started
C19_Witness ==
    /\ pc = "fanout"
    /\ Cardinality(Running) = NumCPU
    /\ spawned < Len(block.entries)
    /\ calls["GetEntryByCid"] > 0

\* the heads of the archive: the data and the metadata of its
\* transactions and the data of its rewards
Heads ==
    {carReader[o].data.data :
        o \in {x \in DOMAIN carReader :
                 carReader[x].data.kind \in {"Transaction", "Rewards"}}}
    \cup {carReader[o].data.metadata :
             o \in {x \in DOMAIN carReader :
                      carReader[x].data.kind = "Transaction"}}

\* every frame that next names can be fetched and decoded
AllFramesFetched(next) ==
    \A i \in DOMAIN next : GetDataFrameByCid(next[i]).err = NilErr

RECURSIVE FramesData(_)
\* the data of the frames that next names, one after the other
FramesData(next) ==
    IF Len(next) = 0 THEN <<>>
    ELSE GetDataFrameByCid(Head(next)).node.data \o FramesData(Tail(next))

\* C20: the reassembly of a head with total = 1 is the head's data and
\* fetches nothing, whatever next holds; that of a head with total > 1
\* is the head's data followed by the data of the frames of next in
\* their order, or, when one of them cannot be fetched or decoded, an
\* error and no payload, on which parseTransactionAndMetaFromNode fails
\* and the rewards step ends the request with the Internal error reply
C20_FrameReassembly ==
    /\ \A h \in Heads :
          /\ h.total = 1
             => ReadFrames(h) = [data |-> h.data, err |-> NilErr,
                                 frames |-> 0, lookups |-> 0, reads |-> 0]
          /\ (h.total > 1 /\ AllFramesFetched(h.next))
             => /\ ReadFrames(h).err = NilErr
                /\ ReadFrames(h).data = h.data \o FramesData(h.next)
                /\ ReadFrames(h).frames = Len(h.next)
          /\ (h.total > 1 /\ ~AllFramesFetched(h.next))
             => /\ ReadFrames(h).err # NilErr
                /\ ReadFrames(h).data = <<>>
    /\ (lastParse.called
        /\ \/ /\ lastParse.node.data.total > 1
              /\ ~AllFramesFetched(lastParse.node.data.next)
           \/ /\ ValidData(lastParse.node)
              /\ lastParse.node.metadata.total > 1
              /\ ~AllFramesFetched(lastParse.node.metadata.next))
       => lastParse.err # NilErr
    /\ (pc \in {"assemble", "reply", "done", "panic"}
        /\ block # NoBlock /\ ~SomeEntryFails
        /\ block.rewards # DummyCID
        /\ GetRewardsByCid(block.rewards).err = NilErr
        /\ GetRewardsByCid(block.rewards).node.data.total > 1
        /\ ~AllFramesFetched(GetRewardsByCid(block.rewards).node.data.next))
       => pc = "done" /\ replies = <<InternalErrorReply>>

\* a successful response whose rewards were reassembled from a head and
\* two continuation frames, and one of whose transactions was reassembled
\* from a head and one continuation frame
C20_Witness ==
    /\ Succeeded
    /\ block.rewards # DummyCID
    /\ GetRewardsByCid(block.rewards).node.data.total = 3
    /\ ReadFrames(GetRewardsByCid(block.rewards).node.data).data
          = <<ZstdMagic, RewardsMagic, 3, 0, 7>>
    /\ Len(rewards.items) = 3
    /\ \E k \in DOMAIN allTransactionNodes :
          /\ allTransactionNodes[k].data.total = 2
          /\ allTransactions[k].transaction = Base64(TxLegacy)
    /\ calls["GetDataFrameByCid"] >= 3

\* the integers the reward-type coercion is tried on are
\* -MaxRewardType..MaxRewardType
MaxRewardType == 8

\* the name the reward types 1..4 have in the RewardType enumeration
RewardTypeName == <<"Fee", "Rent", "Staking", "Voting">>

\* the rewards message of the block as ParseRewards and the JSON round
\* trip hand it to the loop over rewardsAsArray
ParsedRewards ==
    ParseRewards(decompressZstd(
        ReadFrames(GetRewardsByCid(block.rewards).node.data).data).out)

\* the rewards of the handler are the post-processed rewards message
RewardsPostProcessed ==
    /\ block # NoBlock
    /\ block.rewards # DummyCID
    /\ ~rewards.isNull

\* C21: the coercion gives 1, 2, 3, 4 the names Fee, Rent, Staking,
\* Voting and every other integer the name Unknown; the rewardType of a
\* post-processed reward element is the name of its numeric reward_type,
\* and an element whose reward_type is not a number is not coerced
C21_RewardTypeCoercion ==
    /\ \A typ \in (0 - MaxRewardType)..MaxRewardType :
          rentTypeToString(typ)
             = IF typ \in DOMAIN RewardTypeName THEN RewardTypeName[typ]
               ELSE "Unknown"
    /\ RewardsPostProcessed
       => /\ Len(rewards.items) = Len(ParsedRewards.rewards)
          /\ \A i \in DOMAIN rewards.items :
                LET raw == ParsedRewards.rewards[i]
                    e == rewards.items[i] IN
                IF "reward_type" \notin DOMAIN raw
                THEN "rewardType" \notin DOMAIN e
                ELSE IF raw["reward_type"].t # "num"
                THEN e["rewardType"] = raw["reward_type"]
                ELSE e["rewardType"]
                       = JStr(IF raw["reward_type"].n \in 1..4
                              THEN RewardTypeName[raw["reward_type"].n]
                              ELSE "Unknown")

\* a successful response whose rewards hold one element of each of the
\* types 1 to 5, coerced to the five names, and one without a type
C21_Witness ==
    /\ Succeeded
    /\ RewardsPostProcessed
    /\ Len(ParsedRewards.rewards) = 6
    /\ Len(replies[1].result.rewards.items) = 6
    /\ [i \in 1..5 |-> ParsedRewards.rewards[i]["reward_type"]]
          = <<JNum(1), JNum(2), JNum(3), JNum(4), JNum(5)>>
    /\ [i \in 1..5 |-> replies[1].result.rewards.items[i]["rewardType"]]
          = <<JStr("Fee"), JStr("Rent"), JStr("Staking"), JStr("Voting"),
              JStr("Unknown")>>
    /\ "rewardType" \notin DOMAIN replies[1].result.rewards.items[6]

\* C22: a getBlock request gets at most one reply, and once it has got
\* an error reply no index lookup, no archive read and no further reply
\* is made for it
C22_AtMostOneReply ==
    /\ [](req.method = "getBlock" => Len(replies) <= 1)
    /\ [][(/\ req.method = "getBlock"
           /\ replies # <<>>
           /\ replies[1].kind = "error")
          => /\ calls' = calls
             /\ replies' = replies
             /\ pc' = pc]_vars

\* the Internal error reply of a request one of whose entry tasks failed
\* after the block and two entries had been fetched
C22_Witness ==
    /\ req.method = "getBlock"
    /\ pc = "done"
    /\ wgErr # NilErr
    /\ replies = <<InternalErrorReply>>
    /\ calls["GetBlock"] = 1
    /\ calls["GetEntryByCid"] = 3
    /\ calls["GetTransactionByCid"] >= 1
    /\ calls["lookups"] >= 4

\* the handler is past the fan-out of a block
PastFanOut ==
    /\ req.method = "getBlock"
    /\ block # NoBlock
    /\ pc \in {"rewards", "assemble", "reply", "done", "panic"}

\* C23: past the fan-out every entry of the block has had its task and
\* every task has returned, whether or not one of them failed; and a step
\* that reassembles a transaction from the accumulator, builds the
\* response or emits a reply is taken with no task running and leaves
\* the accumulator, the last-entry hash and the tasks as they are
C23_ReadAfterTasksTerminated ==
    /\ [](PastFanOut
          => /\ spawned = Len(block.entries)
             /\ DOMAIN tasks = 1..Len(block.entries)
             /\ \A i \in DOMAIN tasks : tasks[i].st = "done")
    /\ [][(/\ req.method = "getBlock"
           /\ \/ allTransactions' # allTransactions
              \/ lastParse' # lastParse
              \/ blockResp' # blockResp
              \/ rewards' # rewards
              \/ replies' # replies)
          => /\ Running = {}
             /\ allTransactionNodes' = allTransactionNodes
             /\ lastEntryHash' = lastEntryHash
             /\ tasks' = tasks]_vars

\* the accumulator of a block of three entries, more than the errgroup
\* runs at once, is being iterated: two of its three nodes are
\* reassembled, every task has returned and the last-entry hash is set
C23_Witness ==
    /\ PastFanOut
    /\ pc = "assemble"
    /\ Len(block.entries) = 3
    /\ Len(block.entries) > NumCPU
    /\ spawned = 3
    /\ \A i \in DOMAIN tasks : tasks[i].st = "done"
    /\ Len(allTransactionNodes) = 3
    /\ Len(allTransactions) = 2
    /\ lastEntryHash # ZeroHash

\* the getBlock handler has ended for a block it fetched
AssemblerEnded ==
    /\ req.method = "getBlock"
    /\ block # NoBlock
    /\ pc \in {"done", "panic"}

\* the parent of the block is fetched and has no entry
ParentHasNoEntries ==
    /\ block.parent_slot # 0
    /\ GetBlock(block.parent_slot).err = NilErr
    /\ Len(GetBlock(block.parent_slot).node.entries) = 0

\* C24: a getBlock request that fetched its block gets an error reply
\* if the block has no entries, gets an error reply and does not end
\* without a reply if the block is assembled and its parent has no
\* entries, and the blockhash of a successful response is never the
\* base58 of the all-zero hash of an entry that was not fetched
C24_EmptyEntriesIsAnError ==
    AssemblerEnded
    => /\ Len(block.entries) = 0
          => /\ pc = "done"
             /\ Len(replies) = 1
             /\ replies[1].kind = "error"
       /\ (ParentHasNoEntries /\ wgErr = NilErr
           /\ Len(allTransactions) = Len(allTransactionNodes))
          => /\ pc = "done"
             /\ Len(replies) = 1
             /\ replies[1].kind = "error"
       /\ Succeeded
          => /\ Len(block.entries) > 0
             /\ GetEntryByCid(block.entries[Len(block.entries)]).err = NilErr
             /\ replies[1].result.blockhash
                  = Base58(HashFromBytes(
                       GetEntryByCid(block.entries[Len(block.entries)])
                          .node.hash))

====
